---- MODULE Spec2Model ----
(***************************************************************************)
(* The WhatsApp relay backend (src/backend/index.js): the in-memory        *)
(* conversation map, the triage bot, the webhook handler and the socket    *)
(* handlers, as a state machine of the Node.js event loop.  Every handler  *)
(* runs to completion; an `await` on the outbound send suspends the        *)
(* caller, whose continuation is a later step.                             *)
(*                                                                         *)
(* Text is a sequence of chunks: a customer's text is a sequence of        *)
(* one-character strings, a bot reply is the sequence of the configured    *)
(* texts it is concatenated from.  Timestamps (new Date()) and the notes   *)
(* field are left out; APP_SECRET is taken to be configured.  The set of   *)
(* connected sessions is socket.io's, not the program's: a session is the  *)
(* name under which a socket event arrives, and the disconnect handler,    *)
(* which only logs, is no step.                                            *)
(***************************************************************************)
EXTENDS Integers, Sequences, FiniteSets, TLC

VARIABLES
    conversations,  \* let conversations = {}: customer id -> conversation
    pending,        \* suspended awaits on sendWhatsAppMessage, oldest first
    credentials,    \* WHATSAPP_ACCESS_TOKEN and WHATSAPP_PHONE_NUMBER_ID are set
    last,           \* the request or event the last step served
    res,            \* HTTP status the last step answered (0: no HTTP response)
    sent,           \* body of that HTTP response
    emitted,        \* socket events emitted by the last step, in order
    conversas       \* the dashboard (App): the conversations each session shows

vars == <<conversations, pending, credentials, last, res, sent, emitted, conversas>>

(***************************************************************************)
(* Bounds of the model.                                                    *)
(***************************************************************************)
\* messages in the Store, the replies already due included
MaxMsgs == 3
\* sends in flight at once
MaxPending == 2

Users == {"5511900000001", "5511900000002"}
Sessions == {"s1"}
\* the ids the provider gives to the messages it is asked to send
OutboundIds == {"wamid.out"}

(***************************************************************************)
(* Strings.                                                                *)
(***************************************************************************)
Str(s) == <<s>>

IsSpace(c) == c \in {" ", "\t", "\n"}

RECURSIVE trimStart(_)
trimStart(s) == IF s # <<>> /\ IsSpace(Head(s)) THEN trimStart(Tail(s)) ELSE s

RECURSIVE trimEnd(_)
trimEnd(s) ==
    IF s # <<>> /\ IsSpace(s[Len(s)]) THEN trimEnd(SubSeq(s, 1, Len(s) - 1)) ELSE s

\* String.prototype.trim
trim(s) == trimEnd(trimStart(s))

DigitChars == <<"0", "1", "2", "3", "4", "5", "6", "7", "8", "9">>

IsDigit(c) == \E i \in 1..10 : DigitChars[i] = c

DigitVal(c) == (CHOOSE i \in 1..10 : DigitChars[i] = c) - 1

RECURSIVE LeadingDigits(_)
LeadingDigits(s) ==
    IF s # <<>> /\ IsDigit(Head(s)) THEN <<Head(s)>> \o LeadingDigits(Tail(s)) ELSE <<>>

RECURSIVE DecimalValue(_)
DecimalValue(d) ==
    IF d = <<>> THEN 0 ELSE 10 * DecimalValue(SubSeq(d, 1, Len(d) - 1)) + DigitVal(d[Len(d)])

\* the result of parseInt: <<>> is NaN, <<n>> is the number n
NaN == <<>>

\* parseInt(string): leading white space, an optional sign, then the longest
\* run of decimal digits; whatever follows the digits is ignored
parseInt(s) ==
    LET t == trimStart(s)
        signed == t # <<>> /\ Head(t) \in {"+", "-"}
        digits == LeadingDigits(IF signed THEN Tail(t) ELSE t)
    IN  IF digits = <<>> THEN NaN
        ELSE IF signed /\ Head(t) = "-" THEN <<0 - DecimalValue(digits)>>
        ELSE <<DecimalValue(digits)>>

(***************************************************************************)
(* The triage bot.                                                         *)
(***************************************************************************)
\* the statuses the backend writes, and the tabs of the dashboard
BotStatuses ==
    { "Nova Conversa", "Aguardando Resposta Cliente", "Abertura de Chamado",
      "Consulta Andamento", "Informacoes/Duvidas" }

statusAbas ==
    { "aguardando_opcao_bot", "abertura_chamado", "informacoes_duvidas",
      "chamado_em_processo", "finalizado" }

botMessages ==
    [ welcome          |-> Str("Ola! Bem-vindo ao nosso atendimento. Como podemos ajudar? 1. Abrir chamado 2. Consultar andamento 3. Informacoes/Duvidas"),
      invalidOption    |-> Str("Opcao invalida. Por favor, escolha 1, 2 ou 3."),
      infoForwarding   |-> Str("Certo, sua solicitacao de informacao sera encaminhada a um atendente."),
      statusForwarding |-> Str("Ok, sua consulta de andamento sera verificada por um atendente."),
      ticketForwarding |-> Str("Seu chamado sera aberto e encaminhado a um atendente. Informe seu nome e OS, por favor.") ]

\* the switch of handleBotLogic with the choice `choice` parsed from the text
BotChoice(conversation, choice) ==
    IF choice = <<1>> THEN
        [ replyMessageText |-> botMessages.ticketForwarding,
          botState |-> "awaiting_os", newStatus |-> "Abertura de Chamado" ]
    ELSE IF choice = <<2>> THEN
        [ replyMessageText |-> botMessages.statusForwarding,
          botState |-> "awaiting_os", newStatus |-> "Consulta Andamento" ]
    ELSE IF choice = <<3>> THEN
        [ replyMessageText |-> botMessages.infoForwarding,
          botState |-> "forwarded_to_agent", newStatus |-> "Informacoes/Duvidas" ]
    ELSE
        [ replyMessageText |-> botMessages.invalidOption \o Str("\n\n") \o botMessages.welcome,
          botState |-> conversation.botState, newStatus |-> conversation.status ]

\* a switch whose forwarded case hands the conversation back to the menu
BotSwitch_BackToMenu(conversation, userMessageText) ==
    CASE conversation.botState = "awaiting_initial_choice" ->
            BotChoice(conversation, parseInt(trim(userMessageText)))
      [] conversation.botState = "forwarded_to_agent" ->
            [ replyMessageText |-> <<>>,
              botState |-> "awaiting_initial_choice", newStatus |-> conversation.status ]
      [] OTHER ->
            [ replyMessageText |-> botMessages.welcome,
              botState |-> "awaiting_initial_choice",
              newStatus |-> "Aguardando Resposta Cliente" ]

\* the switch of handleBotLogic: the reply, the next bot state and the status
BotSwitch(conversation, userMessageText) ==
    CASE conversation.botState = "awaiting_initial_choice" ->
            BotChoice(conversation, parseInt(trim(userMessageText)))
      [] conversation.botState = "forwarded_to_agent" ->
            [ replyMessageText |-> <<>>,
              botState |-> conversation.botState, newStatus |-> conversation.status ]
      [] OTHER ->
            [ replyMessageText |-> botMessages.welcome,
              botState |-> "awaiting_initial_choice",
              newStatus |-> "Aguardando Resposta Cliente" ]

(***************************************************************************)
(* Socket events and the outbound send.                                    *)
(***************************************************************************)
\* io.emit(event, payload) reaches every session: to = "all";
\* socket.emit(event, payload) reaches the one session `to`
Event(event, to, userId, payload) ==
    [ event |-> event, to |-> to, userId |-> userId, payload |-> payload ]

\* what `await sendWhatsAppMessage(...)` can evaluate to
Undefined == [ kind |-> "undefined" ]
Null == [ kind |-> "null" ]
ResponseData(messages) == [ kind |-> "data", messages |-> messages ]

\* sendWhatsAppMessage: without credentials it returns at once (undefined) and
\* the caller resumes in a microtask; otherwise the caller resumes when
\* axios.post settles, with response.data or (on an error) null
sendWhatsAppMessage(configured) ==
    IF ~configured THEN {Undefined}
    ELSE {Null, ResponseData(<<>>)} \cup {ResponseData(<<[id |-> i]>>) : i \in OutboundIds}

\* an await on sendWhatsAppMessage waiting to resume
Await(kind, userId, text, socket, configured) ==
    [ kind |-> kind, userId |-> userId, text |-> text, socket |-> socket,
      micro |-> ~configured ]

(***************************************************************************)
(* handleBotLogic.  A handler's effects are threaded through a record st:  *)
(* the conversation map, the suspended awaits, the events emitted so far   *)
(* and whether an exception has been thrown.                               *)
(***************************************************************************)
\* handleBotLogic up to its first await: the switch, conversation.status =
\* newStatus, then either the suspended send or (no reply) the emit
handleBotLogic(st, userId, userMessageText, configured) ==
    LET conversation == st.conversations[userId]
        sw == BotSwitch(conversation, userMessageText)
        updated == [conversation EXCEPT !.botState = sw.botState, !.status = sw.newStatus]
        store == [st.conversations EXCEPT ![userId] = updated]
    IN  IF sw.replyMessageText # <<>> THEN
            [st EXCEPT !.conversations = store,
                       !.pending = Append(@, Await("bot", userId, sw.replyMessageText, "-", configured))]
        ELSE
            [st EXCEPT !.conversations = store,
                       !.emitted = Append(@, Event("update_conversation", "all", userId, updated))]

\* a continuation that writes the status after the send
BotReplied_WritesStatus(st, task) ==
    LET conversation == st.conversations[task.userId]
        updated == [conversation EXCEPT
                      !.status = "Aguardando Resposta Cliente",
                      !.messages = Append(@, [sender |-> "bot", text |-> task.text])]
    IN  [st EXCEPT !.conversations = [@ EXCEPT ![task.userId] = updated],
                   !.emitted = Append(@, Event("update_conversation", "all", task.userId, updated))]

\* handleBotLogic after the await: the reply is pushed whatever the send
\* returned, and the conversation is broadcast
BotReplied(st, task) ==
    LET conversation == st.conversations[task.userId]
        updated == [conversation EXCEPT
                      !.messages = Append(@, [sender |-> "bot", text |-> task.text])]
    IN  [st EXCEPT !.conversations = [@ EXCEPT ![task.userId] = updated],
                   !.emitted = Append(@, Event("update_conversation", "all", task.userId, updated))]

(***************************************************************************)
(* POST /webhook/whatsapp: one change of one entry.                        *)
(***************************************************************************)
\* x ? x[0] : null, with <<>> for a missing or empty array and for null
First(array) == IF array = <<>> THEN <<>> ELSE <<array[1]>>

\* a creation that skips the initial bot state
InitConversation_Awaiting(st, from, contactData) ==
    IF from \in DOMAIN st.conversations THEN st
    ELSE LET created == [ userId |-> from,
                          userName |-> IF contactData # <<>> THEN contactData[1].profile.name ELSE from,
                          status |-> "Nova Conversa",
                          messages |-> <<>>,
                          botState |-> "awaiting_initial_choice" ]
         IN  [st EXCEPT !.conversations = (from :> created) @@ @,
                        !.emitted = Append(@, Event("new_conversation", "all", from, created))]

\* a creation that does not look for an existing entry
InitConversation_Always(st, from, contactData) ==
    LET created == [ userId |-> from,
                     userName |-> IF contactData # <<>> THEN contactData[1].profile.name ELSE from,
                     status |-> "Nova Conversa",
                     messages |-> <<>>,
                     botState |-> "initial" ]
    IN  [st EXCEPT !.conversations = (from :> created) @@ @,
                   !.emitted = Append(@, Event("new_conversation", "all", from, created))]

\* lines 199-210: the conversation is created if the map has no entry for `from`
InitConversation(st, from, contactData) ==
    IF from \in DOMAIN st.conversations THEN st
    ELSE LET created == [ userId |-> from,
                          userName |-> IF contactData # <<>> THEN contactData[1].profile.name ELSE from,
                          status |-> "Nova Conversa",
                          messages |-> <<>>,
                          botState |-> "initial" ]
         IN  [st EXCEPT !.conversations = (from :> created) @@ @,
                        !.emitted = Append(@, Event("new_conversation", "all", from, created))]

\* a push that replaces the messages of the conversation
PushUserMessage_Replace(st, from, text, messageId) ==
    LET message == [ sender |-> "user", text |-> text, id |-> messageId ]
    IN  [st EXCEPT !.conversations[from].messages = <<message>>,
                   !.emitted = Append(@, Event("new_message", "all", from, message))]

\* lines 212-216: the customer's message is pushed and broadcast
PushUserMessage(st, from, text, messageId) ==
    LET message == [ sender |-> "user", text |-> text, id |-> messageId ]
    IN  [st EXCEPT !.conversations[from].messages = Append(@, message),
                   !.emitted = Append(@, Event("new_message", "all", from, message))]

\* lines 192-219: a text message
TextMessage(st, messageData, contactData, configured) ==
    IF "text" \notin DOMAIN messageData THEN [st EXCEPT !.threw = TRUE]
    ELSE IF /\ messageData.from \notin DOMAIN st.conversations
            /\ contactData # <<>>
            /\ "profile" \notin DOMAIN contactData[1]
    THEN [st EXCEPT !.threw = TRUE]
    ELSE handleBotLogic(
            PushUserMessage(InitConversation(st, messageData.from, contactData),
                            messageData.from, messageData.text.body, messageData.id),
            messageData.from, messageData.text.body, configured)

\* a status branch that does not look for the conversation
DeliveryStatus_Unchecked(st, statusData) ==
    [st EXCEPT !.emitted = Append(@,
        Event("message_status_update", "all", statusData.recipient_id,
              [ messageId |-> statusData.id, status |-> statusData.status ]))]

\* lines 223-235: a delivery status
DeliveryStatus(st, statusData) ==
    IF statusData.recipient_id \in DOMAIN st.conversations THEN
        [st EXCEPT !.emitted = Append(@,
            Event("message_status_update", "all", statusData.recipient_id,
                  [ messageId |-> statusData.id, status |-> statusData.status ]))]
    ELSE st

\* a callback that takes every message for a text message
ProcessChange_AnyType(st, change, configured) ==
    IF st.threw \/ change.field # "messages" THEN st
    ELSE LET messageData == First(change.value.messages)
             contactData == First(change.value.contacts)
             statusData == First(change.value.statuses)
         IN  IF messageData # <<>> THEN
                 TextMessage(st, messageData[1], contactData, configured)
             ELSE IF statusData # <<>> THEN DeliveryStatus(st, statusData[1])
             ELSE st

\* the body of entry.changes.forEach; an exception thrown by an earlier
\* callback has ended the loops
ProcessChange(st, change, configured) ==
    IF st.threw \/ change.field # "messages" THEN st
    ELSE LET messageData == First(change.value.messages)
             contactData == First(change.value.contacts)
             statusData == First(change.value.statuses)
         IN  IF messageData # <<>> /\ messageData[1].type = "text" THEN
                 TextMessage(st, messageData[1], contactData, configured)
             ELSE IF statusData # <<>> THEN DeliveryStatus(st, statusData[1])
             ELSE st

RECURSIVE ProcessChanges(_, _, _)
ProcessChanges(st, changes, configured) ==
    IF changes = <<>> THEN st
    ELSE ProcessChanges(ProcessChange(st, Head(changes), configured), Tail(changes), configured)

RECURSIVE ProcessEntries(_, _, _)
ProcessEntries(st, entry, configured) ==
    IF entry = <<>> THEN st
    ELSE ProcessEntries(ProcessChanges(st, Head(entry).changes, configured), Tail(entry), configured)

(***************************************************************************)
(* The signature of a webhook request.  The raw body is a sequence of      *)
(* bytes; the digest is cut to one byte (two hex digits), so that a        *)
(* signature is a short string whose value depends on every byte signed.   *)
(***************************************************************************)
APP_SECRET == <<115, 51>>

HexChars == <<"0", "1", "2", "3", "4", "5", "6", "7", "8", "9", "a", "b", "c", "d", "e", "f">>

\* .digest('hex') of a one-byte digest
Hex(byte) == <<HexChars[(byte \div 16) + 1], HexChars[(byte % 16) + 1]>>

RECURSIVE Absorb(_, _)
Absorb(h, bytes) ==
    IF bytes = <<>> THEN h ELSE Absorb((h * 31 + Head(bytes) + 1) % 256, Tail(bytes))

\* crypto.createHmac('sha256', key).update(data).digest('hex')
createHmac(key, data) == Hex(Absorb(Absorb(Absorb(17, key), data), key))

\* 'sha256=' + the hex digest of the raw body
expectedSignature(rawBody) == <<"s", "h", "a", "2", "5", "6", "=">> \o createHmac(APP_SECRET, rawBody)

\* crypto.timingSafeEqual(a, b): "throw" stands for the RangeError it throws
\* when the two buffers differ in length
timingSafeEqual(a, b) ==
    IF Len(a) # Len(b) THEN "throw" ELSE IF a = b THEN "true" ELSE "false"

\* a header is [present |-> FALSE] (no such header) or a string
NoHeader == [ present |-> FALSE, value |-> <<>> ]
Header(value) == [ present |-> TRUE, value |-> value ]

\* a verification that only looks for the header
VerifySignature_PresenceOnly(signature, expected) ==
    IF ~signature.present \/ signature.value = <<>> THEN 403 ELSE 0

\* lines 163-176, with `expected` the expectedSignature of the raw body: 0
\* when the signature is accepted, else the status the request is answered
\* with; an exception that leaves the handler is answered 500 by Express
VerifySignature(signature, expected) ==
    IF ~signature.present \/ signature.value = <<>> THEN 403
    ELSE LET equal == timingSafeEqual(signature.value, expected)
         IN  IF equal = "throw" THEN 500 ELSE IF equal = "false" THEN 403 ELSE 0

(***************************************************************************)
(* Webhook bodies and their raw bytes (req.rawBody, of which req.body is   *)
(* the parsed JSON).                                                       *)
(***************************************************************************)
RECURSIVE Concat(_)
Concat(seqs) == IF seqs = <<>> THEN <<>> ELSE Head(seqs) \o Concat(Tail(seqs))

\* the strings a body is written with; a string's byte is its place here
Alphabet ==
    <<"whatsapp_business_account", "page", "messages", "account_update", "text", "image",
      "5511900000001", "5511900000002", "wamid.1", "wamid.3", "wamid.oi", "wamid.img",
      "wamid.out", "delivered", "Cliente",
      "1", "2", "3", "o", "i", " ", "a", "b", "c", "5">>

Byte(s) == CHOOSE i \in 1..Len(Alphabet) : Alphabet[i] = s

BytesOfMessage(m) ==
    <<101, Byte(m.type), Byte(m.from), Byte(m.id)>>
        \o (IF "text" \in DOMAIN m
            THEN <<102>> \o [i \in 1..Len(m.text.body) |-> Byte(m.text.body[i])]
            ELSE <<>>)

BytesOfContact(c) ==
    <<103, Byte(c.wa_id)>> \o (IF "profile" \in DOMAIN c THEN <<104, Byte(c.profile.name)>> ELSE <<>>)

BytesOfStatus(d) == <<105, Byte(d.recipient_id), Byte(d.id), Byte(d.status)>>

BytesOfChange(change) ==
    <<106, Byte(change.field)>>
        \o Concat([i \in 1..Len(change.value.messages) |-> BytesOfMessage(change.value.messages[i])])
        \o Concat([i \in 1..Len(change.value.contacts) |-> BytesOfContact(change.value.contacts[i])])
        \o Concat([i \in 1..Len(change.value.statuses) |-> BytesOfStatus(change.value.statuses[i])])

BytesOfEntry(e) == <<107>> \o Concat([i \in 1..Len(e.changes) |-> BytesOfChange(e.changes[i])])

\* the raw body of the JSON value `body`
RawBody(body) ==
    <<Byte(body.object)>> \o Concat([i \in 1..Len(body.entry) |-> BytesOfEntry(body.entry[i])])

\* the provider's payload shapes
TextMsg(from, id, text) == [ type |-> "text", from |-> from, id |-> id, text |-> [body |-> text] ]
OtherMsg(type, from, id) == [ type |-> type, from |-> from, id |-> id ]
Contact(waId) == [ wa_id |-> waId, profile |-> [name |-> "Cliente"] ]
BareContact(waId) == [ wa_id |-> waId ]
Status(recipient, id) == [ recipient_id |-> recipient, id |-> id, status |-> "delivered" ]
Change(field, messages, contacts, statuses) ==
    [ field |-> field,
      value |-> [messages |-> messages, contacts |-> contacts, statuses |-> statuses] ]
Body(object, changes) == [ object |-> object, entry |-> <<[changes |-> changes]>> ]

\* the texts customers write, each message with the id the provider gave it
InboundTexts == { <<"1">>, <<"3">>, <<"o", "i">> }

\* the second customer is there to be another customer
TextsOf(u) == IF u = "5511900000001" THEN InboundTexts ELSE { <<"o", "i">> }

MessageId(text) == IF text = <<"1">> THEN "wamid.1" ELSE IF text = <<"3">> THEN "wamid.3" ELSE "wamid.oi"

Inbound(from, text) == TextMsg(from, MessageId(text), text)

\* one text message, with or without the sender's contact
TextChanges ==
    UNION { { Change("messages", <<Inbound(u, t)>>, <<>>, <<>>) : t \in TextsOf(u) } : u \in Users }
    \cup { Change("messages", <<Inbound("5511900000001", <<"o", "i">>)>>, <<Contact("5511900000001")>>, <<>>) }

\* one delivery status
StatusChanges == { Change("messages", <<>>, <<>>, <<Status(u, "wamid.out")>>) : u \in Users }

\* shapes the handler has no branch for: another message type, another field
UnsupportedChanges ==
    { Change("messages", <<OtherMsg("image", "5511900000001", "wamid.img")>>, <<>>, <<>>),
      Change("account_update", <<>>, <<>>, <<>>) }

\* a text-typed message without a text body; a contact without a profile
MalformedChanges ==
    { Change("messages", <<OtherMsg("text", "5511900000001", "wamid.oi")>>, <<>>, <<>>),
      Change("messages", <<Inbound("5511900000002", <<"o", "i">>)>>,
             <<BareContact("5511900000002")>>, <<>>) }

\* several events in one change
MixedChanges ==
    { Change("messages", <<Inbound("5511900000001", <<"o", "i">>), Inbound("5511900000001", <<"3">>)>>,
             <<>>, <<>>),
      Change("messages", <<Inbound("5511900000001", <<"o", "i">>)>>, <<>>,
             <<Status("5511900000002", "wamid.out")>>),
      Change("messages", <<OtherMsg("image", "5511900000001", "wamid.img")>>, <<>>,
             <<Status("5511900000001", "wamid.out")>>) }

Changes == TextChanges \cup StatusChanges \cup UnsupportedChanges \cup MalformedChanges \cup MixedChanges

\* bodies of two changes: two messages of one customer, of two customers,
\* and a malformed message before a well-formed one
Batches ==
    { <<Change("messages", <<Inbound("5511900000001", <<"o", "i">>)>>, <<>>, <<>>),
        Change("messages", <<Inbound("5511900000001", <<"3">>)>>, <<>>, <<>>)>>,
      <<Change("messages", <<Inbound("5511900000001", <<"1">>)>>, <<>>, <<>>),
        Change("messages", <<Inbound("5511900000001", <<"o", "i">>)>>, <<>>, <<>>)>>,
      <<Change("messages", <<Inbound("5511900000001", <<"o", "i">>)>>, <<>>, <<>>),
        Change("messages", <<Inbound("5511900000002", <<"o", "i">>)>>, <<>>, <<>>)>>,
      <<Change("messages", <<OtherMsg("text", "5511900000001", "wamid.oi")>>, <<>>, <<>>),
        Change("messages", <<Inbound("5511900000002", <<"o", "i">>)>>, <<>>, <<>>)>> }

Bodies ==
    { Body("whatsapp_business_account", <<c>>) : c \in Changes }
    \cup { Body("whatsapp_business_account", b) : b \in Batches }
    \cup { Body("page", <<Change("messages", <<Inbound("5511900000001", <<"o", "i">>)>>, <<>>, <<>>)>>) }

(***************************************************************************)
(* Requests: a body with the signature header it arrives with.             *)
(***************************************************************************)
\* a request as the handler has it: the header, req.body, req.rawBody and
\* (computed once for the request) the signature the handler expects
Request(signature, body) ==
    [ signature |-> signature, body |-> body, rawBody |-> RawBody(body),
      expected |-> expectedSignature(RawBody(body)) ]

\* the body the provider signed, unchanged
SignedRequests == { Request(Header(expectedSignature(RawBody(b))), b) : b \in Bodies }

\* the bodies that arrive with a header that was not made for them
TamperedBodies ==
    { Body("whatsapp_business_account",
           <<Change("messages", <<Inbound("5511900000001", <<"3">>)>>, <<>>, <<>>)>>) }

ReplayedBody ==
    Body("whatsapp_business_account",
         <<Change("messages", <<Inbound("5511900000001", <<"1">>)>>, <<>>, <<>>)>>)

\* no header, an empty one, one digit changed, the prefix missing, one
\* character too many, the signature of another body
TamperedHeaders(rawBody) ==
    LET expected == expectedSignature(rawBody)
        n == Len(expected)
    IN  { NoHeader,
          Header(<<>>),
          Header([expected EXCEPT ![n] = IF @ = "0" THEN "1" ELSE "0"]),
          Header(createHmac(APP_SECRET, rawBody)),
          Header(expected \o <<"0">>),
          Header(expectedSignature(RawBody(ReplayedBody))) }

TamperedRequests ==
    UNION { { Request(h, b) : h \in TamperedHeaders(RawBody(b)) } : b \in TamperedBodies }

Requests == SignedRequests \cup TamperedRequests

\* what operators send over the socket
\* the handshake requests: the right one with two challenges, and one with each
\* parameter wrong, absent or empty
WHATSAPP_VERIFY_TOKEN == "segredo"

Truthy(parameter) == parameter # <<>> /\ parameter[1] # ""

Query(mode, token, challenge) == [ mode |-> mode, token |-> token, challenge |-> challenge ]

Queries ==
    { Query(<<"subscribe">>, <<WHATSAPP_VERIFY_TOKEN>>, <<"1158201444">>),
      Query(<<"subscribe">>, <<WHATSAPP_VERIFY_TOKEN>>, <<"77">>),
      Query(<<"subscribe">>, <<"outro">>, <<"1158201444">>),
      Query(<<"unsubscribe">>, <<WHATSAPP_VERIFY_TOKEN>>, <<"1158201444">>),
      Query(<<>>, <<WHATSAPP_VERIFY_TOKEN>>, <<"1158201444">>),
      Query(<<"">>, <<WHATSAPP_VERIFY_TOKEN>>, <<"1158201444">>),
      Query(<<"subscribe">>, <<>>, <<"1158201444">>) }

NewStatuses == { "finalizado", "qualquer" }
AgentTexts == { <<"o", "k">> }

(***************************************************************************)
(* The state machine.                                                      *)
(***************************************************************************)
NoConversations == [ u \in {} |-> {} ]

Served(op, userId, sig) == [ op |-> op, userId |-> userId, sig |-> sig ]

\* how a request's header relates to the body it came with
SignatureCase(req) ==
    IF ~req.signature.present \/ req.signature.value = <<>> THEN "missing"
    ELSE IF req.signature.value = req.expected THEN "match"
    ELSE IF Len(req.signature.value) # Len(req.expected) THEN "malformed"
    ELSE "mismatch"

Init ==
    /\ conversations = NoConversations
    /\ pending = <<>>
    /\ credentials \in BOOLEAN
    /\ last = Served("listen", "-", "-")
    /\ res = 0
    /\ sent = <<>>
    /\ emitted = <<>>
    /\ conversas = [ session \in Sessions |-> NoConversations ]

\* continuations of awaits that returned without network I/O run before the
\* event loop takes the next request or socket event
Idle == \A i \in 1..Len(pending) : ~pending[i].micro

RECURSIVE Stored(_, _)
Stored(store, users) ==
    IF users = {} THEN 0
    ELSE LET u == CHOOSE x \in users : TRUE
         IN  Len(store[u].messages) + Stored(store, users \ {u})

Due(st) == Cardinality({ i \in 1..Len(st.pending) : st.pending[i].micro })

\* the bounds of the model: room for the messages and for the replies due
Fits(st) ==
    /\ Len(st.pending) <= MaxPending
    /\ Stored(st.conversations, DOMAIN st.conversations) + Due(st) <= MaxMsgs

(***************************************************************************)
(* The dashboard (src/unnamed/part_000).  Each session is an App whose     *)
(* state `conversas` starts empty and is written by its socket listeners   *)
(* only.  The events of a step are delivered to the sessions in that step. *)
(***************************************************************************)
\* lines 47-55
atualizarOuAdicionarConversa(prevConversas, dados) ==
    (dados.numeroCliente :> dados.conversaCompleta) @@ prevConversas

\* lines 57-72
atualizarStatus(prevConversas, dados) ==
    IF dados.numeroCliente \in DOMAIN prevConversas THEN
        [prevConversas EXCEPT ![dados.numeroCliente].status = dados.novoStatus]
    ELSE prevConversas

\* lines 83-94: the listeners the App registers; an event of another name
\* has no listener and is dropped by the client
Listen(prevConversas, event) ==
    CASE event.event = "estado_inicial" -> event.payload
      [] event.event = "atualizacao_conversa_completa" ->
            atualizarOuAdicionarConversa(prevConversas, event.payload)
      [] event.event = "atualizacao_status" -> atualizarStatus(prevConversas, event.payload)
      [] OTHER -> prevConversas

\* the events reach a session in the order of their emission: io.emit
\* reaches every session, socket.emit the session of the socket
RECURSIVE Receive(_, _, _)
Receive(prevConversas, session, events) ==
    IF events = <<>> THEN prevConversas
    ELSE Receive(IF Head(events).to \in {"all", session} THEN Listen(prevConversas, Head(events))
                 ELSE prevConversas,
                 session, Tail(events))

Delivered(views, events) == [ session \in Sessions |-> Receive(views[session], session, events) ]

Start == [ conversations |-> conversations, pending |-> pending, emitted |-> <<>>, threw |-> FALSE ]

Commit(st) ==
    /\ Fits(st)
    /\ conversations' = st.conversations
    /\ pending' = st.pending
    /\ emitted' = st.emitted
    /\ conversas' = Delivered(conversas, st.emitted)

\* the body of res.sendStatus(code), and of the answer Express gives to an
\* exception that leaves a handler
StatusText(code) ==
    CASE code = 200 -> <<"OK">>
      [] code = 400 -> <<"Bad Request">>
      [] code = 403 -> <<"Forbidden">>
      [] code = 404 -> <<"Not Found">>
      [] OTHER -> <<"Internal Server Error">>

\* a handshake that does not look at the mode
VerifyWebhook_TokenOnly(query) ==
    IF Truthy(query.mode) /\ Truthy(query.token) THEN
        IF query.token = <<WHATSAPP_VERIFY_TOKEN>> THEN
            [ status |-> 200, body |-> query.challenge ]
        ELSE [ status |-> 403, body |-> StatusText(403) ]
    ELSE [ status |-> 400, body |-> StatusText(400) ]

\* lines 138-155: the answer to a handshake; a query parameter is <<>> when
\* absent and <<value>> when present
VerifyWebhook(query) ==
    IF Truthy(query.mode) /\ Truthy(query.token) THEN
        IF query.mode = <<"subscribe">> /\ query.token = <<WHATSAPP_VERIFY_TOKEN>> THEN
            [ status |-> 200, body |-> query.challenge ]
        ELSE [ status |-> 403, body |-> StatusText(403) ]
    ELSE [ status |-> 400, body |-> StatusText(400) ]

\* app.get('/webhook/whatsapp')
WebhookGet(query) ==
    /\ Idle
    /\ res' = VerifyWebhook(query).status
    /\ sent' = VerifyWebhook(query).body
    /\ emitted' = <<>>
    /\ conversas' = Delivered(conversas, emitted')
    /\ last' = Served("webhook_get", "-", "-")
    /\ UNCHANGED <<conversations, pending, credentials>>

\* app.post('/webhook/whatsapp')
WebhookPost(req) ==
    LET refused == VerifySignature(req.signature, req.expected)
        known == req.body.object = "whatsapp_business_account"
        st == IF refused = 0 /\ known THEN ProcessEntries(Start, req.body.entry, credentials)
              ELSE Start
    IN  /\ Idle
        /\ Commit(st)
        /\ res' = IF refused # 0 THEN refused
                  ELSE IF ~known THEN 404
                  ELSE IF st.threw THEN 500
                  ELSE 200
        /\ sent' = StatusText(res')
        /\ last' = Served("webhook_post", "-", SignatureCase(req))
        /\ UNCHANGED credentials

\* io.on('connection'): the new session is sent the conversations
Connection(socket) ==
    /\ Idle
    /\ emitted' = <<Event("initial_conversations", socket, "-", conversations)>>
    /\ conversas' = Delivered(conversas, emitted')
    /\ last' = Served("connection", "-", "-")
    /\ res' = 0
    /\ sent' = <<>>
    /\ UNCHANGED <<conversations, pending, credentials>>

\* a change of status that is written to every conversation
ChangeStatus_Everyone(userId, newStatus) ==
    LET st == IF userId \in DOMAIN conversations THEN
                  [Start EXCEPT !.conversations = [u \in DOMAIN conversations |->
                                                      [conversations[u] EXCEPT !.status = newStatus]],
                                !.emitted = <<Event("status_changed", "all", userId, [newStatus |-> newStatus])>>]
              ELSE Start
    IN  /\ Idle
        /\ Commit(st)
        /\ last' = Served("change_status", userId, "-")
        /\ res' = 0
        /\ sent' = <<>>
        /\ UNCHANGED credentials

\* socket.on('change_status')
ChangeStatus(userId, newStatus) ==
    LET st == IF userId \in DOMAIN conversations THEN
                  [Start EXCEPT !.conversations[userId].status = newStatus,
                                !.emitted = <<Event("status_changed", "all", userId, [newStatus |-> newStatus])>>]
              ELSE Start
    IN  /\ Idle
        /\ Commit(st)
        /\ last' = Served("change_status", userId, "-")
        /\ res' = 0
        /\ sent' = <<>>
        /\ UNCHANGED credentials

\* a send that does not look for the conversation
SendAgentMessage_Unchecked(socket, userId, text) ==
    /\ Idle
    /\ Commit([Start EXCEPT !.pending = Append(@, Await("agent", userId, text, socket, credentials))])
    /\ last' = Served("send_agent_message", userId, "-")
    /\ res' = 0
    /\ sent' = <<>>
    /\ UNCHANGED credentials

\* socket.on('send_agent_message') up to its await
SendAgentMessage(socket, userId, text) ==
    LET st == IF userId \in DOMAIN conversations THEN
                  [Start EXCEPT !.pending = Append(@, Await("agent", userId, text, socket, credentials))]
              ELSE Start
    IN  /\ Idle
        /\ Commit(st)
        /\ last' = Served("send_agent_message", userId, "-")
        /\ res' = 0
        /\ sent' = <<>>
        /\ UNCHANGED credentials

\* the awaits that may resume now: a microtask resumes in turn, a network
\* call whenever it settles
Resumable(i) ==
    /\ i \in 1..Len(pending)
    /\ Idle \/ (pending[i].micro /\ \A j \in 1..(i - 1) : ~pending[j].micro)

Without(seq, i) == SubSeq(seq, 1, i - 1) \o SubSeq(seq, i + 1, Len(seq))

\* a continuation that tells every session of a failed send
AgentSent_Broadcast(st, task, sentMessageInfo) ==
    IF sentMessageInfo.kind = "data" /\ sentMessageInfo.messages # <<>> THEN
        LET newMessage == [ sender |-> "agent", text |-> task.text, id |-> sentMessageInfo.messages[1].id ]
        IN  [st EXCEPT !.conversations[task.userId].messages = Append(@, newMessage),
                       !.emitted = Append(@, Event("new_message", "all", task.userId, newMessage))]
    ELSE
        [st EXCEPT !.emitted = Append(@, Event("agent_message_failed", "all", task.userId, [text |-> task.text]))]

\* socket.on('send_agent_message') after its await
AgentSent(st, task, sentMessageInfo) ==
    IF sentMessageInfo.kind = "data" /\ sentMessageInfo.messages # <<>> THEN
        LET newMessage == [ sender |-> "agent", text |-> task.text, id |-> sentMessageInfo.messages[1].id ]
        IN  [st EXCEPT !.conversations[task.userId].messages = Append(@, newMessage),
                       !.emitted = Append(@, Event("new_message", "all", task.userId, newMessage))]
    ELSE
        [st EXCEPT !.emitted = Append(@, Event("agent_message_failed", task.socket, task.userId, [text |-> task.text]))]

\* a bot reply's send settles
BotResume(i) ==
    /\ Resumable(i)
    /\ pending[i].kind = "bot"
    /\ Commit(BotReplied([Start EXCEPT !.pending = Without(pending, i)], pending[i]))
    /\ last' = Served("bot_reply", pending[i].userId, "-")
    /\ res' = 0
    /\ sent' = <<>>
    /\ UNCHANGED credentials

\* an operator message's send settles
AgentResume(i, sentMessageInfo) ==
    /\ Resumable(i)
    /\ pending[i].kind = "agent"
    /\ Commit(AgentSent([Start EXCEPT !.pending = Without(pending, i)], pending[i], sentMessageInfo))
    /\ last' = Served("agent_reply", pending[i].userId, "-")
    /\ res' = 0
    /\ sent' = <<>>
    /\ UNCHANGED credentials

Next ==
    \/ \E query \in Queries : WebhookGet(query)
    \/ \E req \in Requests : WebhookPost(req)
    \/ \E socket \in Sessions : Connection(socket)
    \/ \E userId \in Users, newStatus \in NewStatuses : ChangeStatus(userId, newStatus)
    \/ \E socket \in Sessions, userId \in Users, text \in AgentTexts :
          SendAgentMessage(socket, userId, text)
    \/ \E i \in 1..MaxPending : BotResume(i)
    \/ \E i \in 1..MaxPending, sentMessageInfo \in sendWhatsAppMessage(credentials) :
          AgentResume(i, sentMessageInfo)

Spec == Init /\ [][Next]_vars

(***************************************************************************)
(* Vocabulary of the properties.                                           *)
(***************************************************************************)
IsPrefix(s, t) == Len(s) <= Len(t) /\ SubSeq(t, 1, Len(s)) = s

Known == DOMAIN conversations

\* the events of `events` that tell the sessions of a change of u's conversation
Deltas(events, u) ==
    { k \in 1..Len(events) :
        /\ events[k].userId = u
        /\ events[k].event \in {"new_conversation", "new_message", "update_conversation", "status_changed"} }

\* the bot replies to u whose send has not settled
BotPending(tasks, u) == { i \in 1..Len(tasks) : tasks[i].kind = "bot" /\ tasks[i].userId = u }

(***************************************************************************)
(* C1.  A POST whose signature header fails verification (missing,         *)
(* malformed or not the HMAC of the raw body) changes nothing in the       *)
(* conversation map, starts no send and emits no event.                    *)
(***************************************************************************)
C1_RejectedPostChangesNothing ==
    [][ (last'.op = "webhook_post" /\ last'.sig # "match")
            => (conversations' = conversations /\ pending' = pending /\ emitted' = <<>>) ]_vars

\* a tampered request was refused while the Store held a conversation
C1_Witness ==
    /\ last.op = "webhook_post"
    /\ last.sig = "mismatch"
    /\ res = 403
    /\ Known # {}

(***************************************************************************)
(* C2.  Signature verification never throws: every POST whose signature    *)
(* header is missing, malformed or mismatching is answered 403.            *)
(***************************************************************************)
C2_RejectedWith403 ==
    (last.op = "webhook_post" /\ last.sig # "match") => res = 403

(***************************************************************************)
(* C3.  For every customer id not yet in the Store, the first inbound text *)
(* message creates exactly one conversation, holding that message; the     *)
(* welcome menu is sent and, when the send returns, appended as a bot      *)
(* message; the bot state is awaiting_initial_choice, whatever the text.   *)
(***************************************************************************)
\* a text message with a body, its contact (if any) with a profile
WellFormedText(change) ==
    /\ change.field = "messages"
    /\ change.value.messages # <<>>
    /\ change.value.messages[1].type = "text"
    /\ "text" \in DOMAIN change.value.messages[1]
    /\ change.value.contacts # <<>> => "profile" \in DOMAIN change.value.contacts[1]

C3_FirstMessage ==
    \A change \in Changes :
        (WellFormedText(change) /\ change.value.messages[1].from \notin Known) =>
            LET m == change.value.messages[1]
                st == ProcessChange(Start, change, credentials)
                customer == [ sender |-> "user", text |-> m.text.body, id |-> m.id ]
                welcome == Await("bot", m.from, botMessages.welcome, "-", credentials)
                replied == BotReplied([st EXCEPT !.pending = pending], welcome)
            IN  /\ DOMAIN st.conversations = Known \cup {m.from}
                /\ \A u \in Known : st.conversations[u] = conversations[u]
                /\ Cardinality({ k \in 1..Len(st.emitted) : st.emitted[k].event = "new_conversation" }) = 1
                /\ st.conversations[m.from].userId = m.from
                /\ st.conversations[m.from].messages = <<customer>>
                /\ st.conversations[m.from].botState = "awaiting_initial_choice"
                /\ st.pending = Append(pending, welcome)
                /\ replied.conversations[m.from].messages =
                       <<customer, [ sender |-> "bot", text |-> botMessages.welcome ]>>
                /\ replied.conversations[m.from].botState = "awaiting_initial_choice"

\* a conversation that holds its first message and the welcome menu
C3_Witness ==
    /\ last.op = "bot_reply"
    /\ \E u \in Known :
        /\ last.userId = u
        /\ Len(conversations[u].messages) = 2
        /\ conversations[u].messages[1].sender = "user"
        /\ conversations[u].messages[1].text = <<"3">>
        /\ conversations[u].messages[2] = [ sender |-> "bot", text |-> botMessages.welcome ]
        /\ conversations[u].botState = "awaiting_initial_choice"

(***************************************************************************)
(* C4.  In awaiting_initial_choice the inputs "1", "2" and "3" give the    *)
(* three documented (reply, next state, status) triples, and every other   *)
(* input (any text that is not exactly one of the three integers after     *)
(* trimming) keeps the bot state and the status and is answered with the   *)
(* invalid-option reply followed by the welcome menu.                      *)
(***************************************************************************)
BotTexts ==
    { <<"1">>, <<"2">>, <<"3">>, <<"5">>, <<"a", "b", "c">>, <<>>, <<" ", "2", " ">>,
      <<"1", "a", "b", "c">>, <<"0", "3">>, <<"+", "1">>, <<"2", " ", "3">>, <<"-", "1">> }

Documented(conversation, trimmed) ==
    IF trimmed = <<"1">> THEN
        [ replyMessageText |-> botMessages.ticketForwarding,
          botState |-> "awaiting_os", newStatus |-> "Abertura de Chamado" ]
    ELSE IF trimmed = <<"2">> THEN
        [ replyMessageText |-> botMessages.statusForwarding,
          botState |-> "awaiting_os", newStatus |-> "Consulta Andamento" ]
    ELSE IF trimmed = <<"3">> THEN
        [ replyMessageText |-> botMessages.infoForwarding,
          botState |-> "forwarded_to_agent", newStatus |-> "Informacoes/Duvidas" ]
    ELSE
        [ replyMessageText |-> botMessages.invalidOption \o Str("\n\n") \o botMessages.welcome,
          botState |-> "awaiting_initial_choice", newStatus |-> conversation.status ]

C4_MenuChoices ==
    \A u \in Known :
        conversations[u].botState = "awaiting_initial_choice" =>
            \A text \in BotTexts :
                BotSwitch(conversations[u], text) = Documented(conversations[u], trim(text))

(***************************************************************************)
(* C5.  The processing of one inbound message (append it, apply the bot    *)
(* transition, send the reply, append the reply) is not interleaved with   *)
(* another mutation of the same conversation: while a bot reply is due,    *)
(* the conversation changes only by that reply being appended.             *)
(***************************************************************************)
C5_OneAtATime ==
    [][ \A u \in Known :
            BotPending(pending, u) # {} =>
                \/ conversations'[u] = conversations[u]
                \/ last'.op = "bot_reply" /\ last'.userId = u ]_vars

(***************************************************************************)
(* C6.  The deltas of one conversation are emitted in the order in which   *)
(* its mutations were applied: no delta is emitted for a conversation      *)
(* while an earlier bot transition of it has not been broadcast, except    *)
(* the delta of the oldest such transition.                                *)
(***************************************************************************)
Oldest(S) == CHOOSE i \in S : \A j \in S : i <= j

C6_DeltasInOrder ==
    [][ \A u \in Users :
            (Deltas(emitted', u) # {} /\ BotPending(pending, u) # {}) =>
                /\ last'.op = "bot_reply"
                /\ last'.userId = u
                /\ pending' = Without(pending, Oldest(BotPending(pending, u))) ]_vars

(***************************************************************************)
(* C7.  A send-message or change-status for a customer id that is not in   *)
(* the Store is a no-op: no conversation is created, nothing is changed,   *)
(* nothing is sent and nothing is emitted.                                 *)
(***************************************************************************)
C7_UnknownCustomerNoOp ==
    [][ (last'.op \in {"change_status", "send_agent_message"} /\ last'.userId \notin Known)
            => (conversations' = conversations /\ pending' = pending /\ emitted' = <<>>) ]_vars

\* an operator wrote to a customer the Store does not hold, while it holds another
C7_Witness ==
    /\ last.op = "send_agent_message"
    /\ last.userId \notin Known
    /\ Known # {}
    /\ emitted = <<>>

(***************************************************************************)
(* C8.  Messages are append-only: no conversation is removed, in every     *)
(* step the messages a conversation had are a prefix of those it has, and  *)
(* it grows by one message for each append the step makes (each customer   *)
(* or operator message broadcast, the bot reply that returned).            *)
(***************************************************************************)
Appends(u) ==
    Cardinality({ k \in 1..Len(emitted') : emitted'[k].event = "new_message" /\ emitted'[k].userId = u })
        + (IF last'.op = "bot_reply" /\ last'.userId = u THEN 1 ELSE 0)

C8_AppendOnly ==
    [][ /\ Known \subseteq DOMAIN conversations'
        /\ \A u \in DOMAIN conversations' :
              LET before == IF u \in Known THEN conversations[u].messages ELSE <<>>
                  after == conversations'[u].messages
              IN  IsPrefix(before, after) /\ Len(after) = Len(before) + Appends(u) ]_vars

\* an operator's message was appended after the customer's messages
C8_Witness ==
    /\ last.op = "agent_reply"
    /\ \E u \in Known :
        /\ Len(conversations[u].messages) = 3
        /\ conversations[u].messages[1].sender = "user"
        /\ conversations[u].messages[3].sender = "agent"

(***************************************************************************)
(* C9.  Conversation creation is idempotent: an inbound message for a      *)
(* customer already in the Store creates no second record and resets       *)
(* nothing (the record keeps its key, its name and its messages, is not    *)
(* announced as new and is not back in the initial bot state; a forwarded  *)
(* conversation stays forwarded with its status).                          *)
(***************************************************************************)
C9_CreationIdempotent ==
    [][ \A u \in Known :
            /\ u \in DOMAIN conversations'
            /\ conversations'[u].userId = u
            /\ conversations'[u].userName = conversations[u].userName
            /\ IsPrefix(conversations[u].messages, conversations'[u].messages)
            /\ conversations'[u].botState # "initial"
            /\ \A k \in 1..Len(emitted') :
                  ~(emitted'[k].event = "new_conversation" /\ emitted'[k].userId = u)
            /\ (last'.op = "webhook_post" /\ conversations[u].botState = "forwarded_to_agent") =>
                  /\ conversations'[u].botState = "forwarded_to_agent"
                  /\ conversations'[u].status = conversations[u].status ]_vars

\* a customer created with a contact name wrote again, without one
C9_Witness ==
    /\ last.op = "webhook_post"
    /\ res = 200
    /\ \E u \in Known :
        /\ conversations[u].userName = "Cliente"
        /\ Len(conversations[u].messages) >= 2
        /\ conversations[u].messages[1].sender = "user"
        /\ conversations[u].messages[Len(conversations[u].messages)].sender = "user"
        /\ \E k \in 1..Len(emitted) : emitted[k].event = "new_message" /\ emitted[k].userId = u

(***************************************************************************)
(* C10.  The status of every conversation is one of the fixed workflow     *)
(* values, whatever webhook events and change-status payloads arrive.      *)
(***************************************************************************)
C10_StatusInEnumeration ==
    \A u \in Known : conversations[u].status \in BotStatuses \cup statusAbas

(***************************************************************************)
(* C11.  An operator's send on a known conversation: when the provider     *)
(* acknowledges the message, exactly one operator message is appended and  *)
(* broadcast to all sessions; when the send fails, no message is appended, *)
(* nothing is broadcast and only the originating session is told.          *)
(***************************************************************************)
\* the provider answered with the id it gave to the message
Acknowledged(sentMessageInfo) == sentMessageInfo.kind = "data" /\ sentMessageInfo.messages # <<>>

C11_AgentSendOutcome ==
    [][ \A i \in 1..Len(pending), sentMessageInfo \in sendWhatsAppMessage(credentials) :
            AgentResume(i, sentMessageInfo) =>
                LET task == pending[i]
                    newMessage == [ sender |-> "agent", text |-> task.text,
                                    id |-> sentMessageInfo.messages[1].id ]
                IN  /\ task.userId \in Known
                    /\ IF Acknowledged(sentMessageInfo) THEN
                           /\ conversations' =
                                  [conversations EXCEPT ![task.userId].messages = Append(@, newMessage)]
                           /\ emitted' = <<Event("new_message", "all", task.userId, newMessage)>>
                       ELSE
                           /\ conversations' = conversations
                           /\ Len(emitted') = 1
                           /\ emitted'[1].event = "agent_message_failed"
                           /\ emitted'[1].to = task.socket
                           /\ task.socket \in Sessions ]_vars

\* the provider refused an operator's message
C11_Witness ==
    /\ last.op = "agent_reply"
    /\ credentials
    /\ Len(emitted) = 1
    /\ emitted[1].event = "agent_message_failed"
    /\ emitted[1].to \in Sessions
    /\ last.userId \in Known

(***************************************************************************)
(* C12.  The GET handshake is answered 200, with the challenge as body,    *)
(* if and only if the mode is "subscribe" and the verify token is the      *)
(* configured one; every other handshake is answered 403 or 400; no        *)
(* handshake changes the conversations, starts a send or emits an event.   *)
(***************************************************************************)
C12_Handshake ==
    [][ \A query \in Queries :
            WebhookGet(query) =>
                /\ conversations' = conversations /\ pending' = pending /\ emitted' = <<>>
                /\ res' \in {200, 403, 400}
                /\ res' = 200 <=>
                       (query.mode = <<"subscribe">> /\ query.token = <<WHATSAPP_VERIFY_TOKEN>>)
                /\ res' = 200 => sent' = query.challenge ]_vars

\* a handshake answered with its challenge while conversations are stored
C12_Witness ==
    /\ last.op = "webhook_get"
    /\ res = 200
    /\ sent = <<"77">>
    /\ Known # {}

(***************************************************************************)
(* C13.  A forwarded conversation stays forwarded: no step changes its bot *)
(* state, and a webhook request only appends customer messages to it: no   *)
(* reply is sent, no bot message appended, the status is kept.             *)
(***************************************************************************)
C13_ForwardedStays ==
    [][ \A u \in Known :
            conversations[u].botState = "forwarded_to_agent" =>
                /\ conversations'[u].botState = "forwarded_to_agent"
                /\ last'.op = "webhook_post" =>
                       /\ conversations'[u].status = conversations[u].status
                       /\ Cardinality(BotPending(pending', u)) = Cardinality(BotPending(pending, u))
                       /\ \A k \in (Len(conversations[u].messages) + 1)..Len(conversations'[u].messages) :
                              conversations'[u].messages[k].sender = "user" ]_vars

\* a customer wrote again after the choice that forwarded the conversation
C13_Witness ==
    /\ last.op = "webhook_post"
    /\ \E u \in Known :
        LET messages == conversations[u].messages
        IN  /\ conversations[u].botState = "forwarded_to_agent"
            /\ Len(messages) >= 3
            /\ messages[Len(messages)].sender = "user"
            /\ messages[Len(messages)].text = <<"o", "i">>
            /\ \E k \in 1..Len(emitted) :
                  /\ emitted[k].event = "new_message"
                  /\ emitted[k].userId = u
                  /\ emitted[k].payload.text = <<"o", "i">>

(***************************************************************************)
(* C14.  A send that failed appends no message to the conversation,        *)
(* whether it carried an operator's message or a bot reply: as long as the *)
(* credentials are not configured (every send fails), the conversations    *)
(* hold customer messages only.                                            *)
(***************************************************************************)
C14_FailedSendAppendsNothing ==
    ~credentials =>
        \A u \in Known : \A k \in 1..Len(conversations[u].messages) :
            conversations[u].messages[k].sender = "user"

(***************************************************************************)
(* C15.  Every message of a conversation has an identifier, and no two     *)
(* messages of one conversation have the same identifier.                  *)
(***************************************************************************)
C15_UniqueIds ==
    \A u \in Known :
        LET messages == conversations[u].messages
        IN  /\ \A k \in 1..Len(messages) : "id" \in DOMAIN messages[k]
            /\ \A j, k \in 1..Len(messages) :
                  (j # k /\ "id" \in DOMAIN messages[j] /\ "id" \in DOMAIN messages[k])
                      => messages[j].id # messages[k].id

(***************************************************************************)
(* C16.  A verified POST answered 200 has handled every event it holds:    *)
(* every text message of every messages[] array is appended and broadcast, *)
(* every delivery status of every statuses[] array of a known conversation *)
(* is broadcast.                                                           *)
(***************************************************************************)
\* the changes of a body, each named by its entry and its place in the entry
ChangesOf(body) ==
    UNION { { <<e, c>> : c \in 1..Len(body.entry[e].changes) } : e \in 1..Len(body.entry) }

ChangeAt(body, ec) == body.entry[ec[1]].changes[ec[2]]

MessageChanges(body) == { ec \in ChangesOf(body) : ChangeAt(body, ec).field = "messages" }

TextMessagesOf(body) ==
    UNION { { <<ec, m>> : m \in { n \in 1..Len(ChangeAt(body, ec).value.messages) :
                                     ChangeAt(body, ec).value.messages[n].type = "text" } }
            : ec \in MessageChanges(body) }

StatusesOf(body, known) ==
    UNION { { <<ec, m>> : m \in { n \in 1..Len(ChangeAt(body, ec).value.statuses) :
                                     ChangeAt(body, ec).value.statuses[n].recipient_id \in known } }
            : ec \in MessageChanges(body) }

Emitted(events, event) == { k \in 1..Len(events) : events[k].event = event }

C16_EveryEventHandled ==
    [][ \A req \in SignedRequests :
            (WebhookPost(req) /\ res' = 200) =>
                /\ Cardinality(Emitted(emitted', "new_message")) = Cardinality(TextMessagesOf(req.body))
                /\ Cardinality(Emitted(emitted', "message_status_update"))
                       >= Cardinality(StatusesOf(req.body, Known)) ]_vars

(***************************************************************************)
(* C17.  A failure local to one event of a verified batch does not abort   *)
(* its siblings: the message of every well-formed text event of the body   *)
(* is appended to its customer's conversation in the step.                 *)
(***************************************************************************)
C17_SiblingsSurvive ==
    [][ \A req \in SignedRequests :
            (WebhookPost(req) /\ req.body.object = "whatsapp_business_account") =>
                \A ec \in ChangesOf(req.body) :
                    WellFormedText(ChangeAt(req.body, ec)) =>
                        LET m == ChangeAt(req.body, ec).value.messages[1]
                            before == IF m.from \in Known THEN Len(conversations[m.from].messages) ELSE 0
                        IN  /\ m.from \in DOMAIN conversations'
                            /\ \E k \in (before + 1)..Len(conversations'[m.from].messages) :
                                  conversations'[m.from].messages[k] =
                                      [ sender |-> "user", text |-> m.text.body, id |-> m.id ] ]_vars

(***************************************************************************)
(* C18.  An operator's change of status is not held back by a send in      *)
(* flight for the conversation: the step stores the new status and         *)
(* broadcasts it, leaving the sends in flight as they are, and the         *)
(* continuation of a send does not write the status.                       *)
(***************************************************************************)
C18_StatusChangeNotBlocked ==
    [][ \A u \in Known :
            /\ (last'.op = "change_status" /\ last'.userId = u) =>
                   /\ pending' = pending
                   /\ Len(emitted') = 1
                   /\ emitted'[1] = Event("status_changed", "all", u,
                                          [ newStatus |-> conversations'[u].status ])
                   /\ conversations'[u].status \in NewStatuses
            /\ last'.op \in {"bot_reply", "agent_reply"} =>
                   conversations'[u].status = conversations[u].status ]_vars

\* the reply to the first message returned after the operator closed the conversation
C18_Witness ==
    /\ last.op = "bot_reply"
    /\ \E u \in Known :
        /\ last.userId = u
        /\ conversations[u].status = "finalizado"
        /\ Len(conversations[u].messages) = 2
        /\ conversations[u].messages[2].sender = "bot"

(***************************************************************************)
(* C19.  A delivery-status event does not change the Store: for an unknown *)
(* customer nothing happens, for a known one exactly one status update is  *)
(* broadcast to all sessions and the conversation is left as it was.       *)
(***************************************************************************)
\* a body of one change, whose event is a delivery status
StatusOnly(body) ==
    /\ body.object = "whatsapp_business_account"
    /\ Len(body.entry) = 1 /\ Len(body.entry[1].changes) = 1
    /\ LET value == body.entry[1].changes[1].value
       IN  /\ body.entry[1].changes[1].field = "messages"
           /\ value.messages = <<>> \/ value.messages[1].type # "text"
           /\ Len(value.statuses) = 1

C19_DeliveryStatusReadOnly ==
    [][ \A req \in SignedRequests :
            (last'.op = "webhook_post" /\ StatusOnly(req.body) /\ WebhookPost(req)) =>
                LET statusData == req.body.entry[1].changes[1].value.statuses[1]
                IN  /\ conversations' = conversations
                    /\ pending' = pending
                    /\ res' = 200
                    /\ emitted' =
                          IF statusData.recipient_id \in Known THEN
                              <<Event("message_status_update", "all", statusData.recipient_id,
                                      [ messageId |-> statusData.id, status |-> statusData.status ])>>
                          ELSE <<>> ]_vars

\* the status of a message of a stored conversation was broadcast
C19_Witness ==
    /\ last.op = "webhook_post"
    /\ res = 200
    /\ Len(emitted) = 1
    /\ emitted[1].event = "message_status_update"
    /\ emitted[1].to = "all"
    /\ emitted[1].userId \in Known

(***************************************************************************)
(* C20.  A verified body whose events are of a shape the handler has no    *)
(* branch for (a message that is not text, another field) is dropped: no   *)
(* conversation created, no message appended, no reply started, nothing    *)
(* emitted, and the request is answered 200.                               *)
(***************************************************************************)
Unsupported(change) ==
    \/ change.field # "messages"
    \/ /\ change.value.statuses = <<>>
       /\ change.value.messages # <<>>
       /\ change.value.messages[1].type # "text"

C20_UnsupportedDropped ==
    [][ \A req \in SignedRequests :
            ( /\ last'.op = "webhook_post"
              /\ req.body.object = "whatsapp_business_account"
              /\ \A ec \in ChangesOf(req.body) : Unsupported(ChangeAt(req.body, ec))
              /\ WebhookPost(req) ) =>
                /\ conversations' = conversations
                /\ pending' = pending
                /\ emitted' = <<>>
                /\ res' = 200 ]_vars

\* with every customer known, only a dropped event is answered 200 in silence
C20_Witness ==
    /\ last.op = "webhook_post"
    /\ last.sig = "match"
    /\ res = 200
    /\ emitted = <<>>
    /\ Known = Users

(***************************************************************************)
(* C21.  The view of a session converges to the Store: when a session has  *)
(* connected and the events emitted so far have been handled by its        *)
(* listeners, it shows the conversations of the Store, with their statuses *)
(* and messages.                                                           *)
(***************************************************************************)
\* the session shows the Store's conversations, statuses and messages
ShowsStore(session) ==
    /\ DOMAIN conversas[session] = Known
    /\ \A u \in Known :
          /\ conversas[session][u].status = conversations[u].status
          /\ Len(conversas[session][u].mensagens) = Len(conversations[u].messages)
          /\ \A k \in 1..Len(conversations[u].messages) :
                conversas[session][u].mensagens[k].texto = conversations[u].messages[k].text

C21_ViewsConverge ==
    last.op = "connection" => \A session \in Sessions : ShowsStore(session)

(***************************************************************************)
(* C22.  Operations on different customers are independent: a webhook      *)
(* event, a bot reply, an operator's send or change of status for one      *)
(* customer leaves the conversation of every other customer and its sends  *)
(* in flight as they were, and emits no event that names the other.        *)
(***************************************************************************)
\* the customers the events of a body name
CustomersOf(body) ==
    UNION { { ChangeAt(body, ec).value.messages[m].from :
                  m \in 1..Len(ChangeAt(body, ec).value.messages) }
            \cup { ChangeAt(body, ec).value.statuses[m].recipient_id :
                  m \in 1..Len(ChangeAt(body, ec).value.statuses) }
            : ec \in ChangesOf(body) }

TasksOf(tasks, u) == SelectSeq(tasks, LAMBDA task : task.userId = u)

\* the step does nothing to customer u
Untouched(u) ==
    /\ conversations'[u] = conversations[u]
    /\ TasksOf(pending', u) = TasksOf(pending, u)
    /\ \A k \in 1..Len(emitted') : emitted'[k].userId # u

C22_Independent ==
    [][ /\ last'.op \in {"change_status", "send_agent_message", "bot_reply", "agent_reply"} =>
               \A u \in Known \ {last'.userId} : Untouched(u)
        /\ \A req \in SignedRequests :
               ( /\ last'.op = "webhook_post"
                 /\ Known \ CustomersOf(req.body) # {}
                 /\ WebhookPost(req) ) =>
                   \A u \in Known \ CustomersOf(req.body) : Untouched(u) ]_vars

\* an operator changed the status of one customer while the reply to another was in flight
C22_Witness ==
    /\ last.op = "change_status"
    /\ last.userId \in Known
    /\ \E u \in Known \ {last.userId} :
          /\ BotPending(pending, u) # {}
          /\ conversations[u].status # conversations[last.userId].status

(***************************************************************************)
(* C23.  After the choice of option 1 or 2 (bot state awaiting_os), no     *)
(* later message of the customer makes the bot send the welcome menu       *)
(* again, puts the bot state back to awaiting_initial_choice or overwrites *)
(* the status of the conversation.                                         *)
(***************************************************************************)
C23_NoSecondWelcome ==
    \A change \in TextChanges :
        LET u == change.value.messages[1].from
            st == ProcessChange(Start, change, credentials)
        IN  (u \in Known /\ conversations[u].botState = "awaiting_os") =>
                /\ st.conversations[u].botState # "awaiting_initial_choice"
                /\ st.conversations[u].status = conversations[u].status
                /\ \A i \in (Len(pending) + 1)..Len(st.pending) :
                      st.pending[i].text # botMessages.welcome

====
